---- MODULE Spec2Model ----
(***************************************************************************)
(* Model of app/main.py: the POST /process/ endpoint that filters a text   *)
(* against the keyword list allowed_domains and then runs the NER and the  *)
(* QA pipeline over it.                                                    *)
(*                                                                         *)
(* A text is a sequence of one-character strings.  A request body is a     *)
(* record; an optional value is a sequence of length at most one.          *)
(***************************************************************************)
EXTENDS Naturals, Sequences, FiniteSets

(* ------------------------------ bounds --------------------------------- *)

\* Number of requests the HTTP runtime serves concurrently.
NumRequests == 2

\* Longest text drawn from FilterAlphabet in the filter specification.
MaxLen == 5

(* ----------------------- module-level configuration -------------------- *)

allowed_domains ==
  << <<"c","l","o","t","h","i","n","g">>,
     <<"f","a","s","h","i","o","n">>,
     <<"s","h","o","p","p","i","n","g">>,
     <<"a","c","c","e","s","s","o","r","i","e","s">>,
     <<"s","u","s","t","a","i","n","a","b","i","l","i","t","y">>,
     <<"s","h","o","e","s">>,
     <<"h","a","t","s">>,
     <<"s","h","i","r","t","s">>,
     <<"d","r","e","s","s","e","s">>,
     <<"p","a","n","t","s">>,
     <<"j","e","a","n","s">>,
     <<"s","k","i","r","t","s">>,
     <<"j","a","c","k","e","t","s">>,
     <<"c","o","a","t","s">>,
     <<"t","-","s","h","i","r","t","s">>,
     <<"s","w","e","a","t","e","r","s">>,
     <<"h","o","o","d","i","e","s">>,
     <<"a","c","t","i","v","e","w","e","a","r">>,
     <<"f","o","r","m","a","l"," ","w","e","a","r">>,
     <<"c","a","s","u","a","l"," ","w","e","a","r">>,
     <<"s","p","o","r","t","s","w","e","a","r">>,
     <<"o","u","t","e","r","w","e","a","r">>,
     <<"s","w","i","m","w","e","a","r">>,
     <<"u","n","d","e","r","w","e","a","r">>,
     <<"l","i","n","g","e","r","i","e">>,
     <<"s","o","c","k","s">>,
     <<"s","c","a","r","v","e","s">>,
     <<"g","l","o","v","e","s">>,
     <<"b","e","l","t","s">>,
     <<"t","i","e","s">>,
     <<"c","a","p","s">>,
     <<"b","e","a","n","i","e","s">>,
     <<"b","o","o","t","s">>,
     <<"s","a","n","d","a","l","s">>,
     <<"h","e","e","l","s">>,
     <<"s","n","e","a","k","e","r","s">>,
     <<"m","a","t","e","r","i","a","l","s">>,
     <<"c","o","t","t","o","n">>,
     <<"p","o","l","y","e","s","t","e","r">>,
     <<"w","o","o","l">>,
     <<"s","i","l","k">>,
     <<"l","e","a","t","h","e","r">>,
     <<"d","e","n","i","m">>,
     <<"l","i","n","e","n">>,
     <<"a","t","h","l","e","i","s","u","r","e">>,
     <<"e","t","h","n","i","c"," ","w","e","a","r">>,
     <<"f","a","s","h","i","o","n"," ","t","r","e","n","d","s">>,
     <<"c","u","s","t","o","m"," ","c","l","o","t","h","i","n","g">>,
     <<"t","a","i","l","o","r","i","n","g">>,
     <<"s","u","s","t","a","i","n","a","b","l","e"," ","m","a","t","e","r","i","a","l","s">>,
     <<"r","e","c","y","c","l","e","d"," ","c","l","o","t","h","i","n","g">>,
     <<"f","a","s","h","i","o","n"," ","b","r","a","n","d","s">>,
     <<"s","t","r","e","e","t","w","e","a","r">> >>

TextHoodie ==
  <<"I"," ","l","o","v","e"," ","m","y"," ","n","e","w"," ","N","i","k","e"," ","h","o","o","d","i","e">>

TextStock ==
  <<"T","h","e"," ","s","t","o","c","k"," ","m","a","r","k","e","t"," ","f","e","l","l"," ","t","o","d","a","y">>

TextCapital ==
  <<"W","h","a","t"," ","i","s"," ","t","h","e"," ","c","a","p","i","t","a","l"," ","o","f"," ","F","r","a","n","c","e","?">>

TextShoes ==
  <<"I"," ","n","e","e","d"," ","n","e","w"," ","r","u","n","n","i","n","g"," ","s","h","o","e","s">>

TextCapsize ==
  <<"T","h","e"," ","b","o","a","t"," ","m","a","y"," ","c","a","p","s","i","z","e">>

(* ------------------------------ str.lower ------------------------------ *)

UpperCase ==
  <<"A","B","C","D","E","F","G","H","I","J","K","L","M",
    "N","O","P","Q","R","S","T","U","V","W","X","Y","Z">>

LowerCase ==
  <<"a","b","c","d","e","f","g","h","i","j","k","l","m",
    "n","o","p","q","r","s","t","u","v","w","x","y","z">>

\* str.lower on one character: an upper-case letter becomes its lower-case
\* letter, every other character is kept.
ToLower ==
  [c \in { UpperCase[i] : i \in 1..26 } |->
     LowerCase[CHOOSE i \in 1..26 : UpperCase[i] = c]]

lower_char(c) == IF c \in DOMAIN ToLower THEN ToLower[c] ELSE c

\* Mutant of lower: the text is matched as written, not lower-cased.
lower_omitted(text) == text

\* text.lower()
lower(text) == [i \in 1..Len(text) |-> lower_char(text[i])]

(* --------------------------- the domain filter ------------------------- *)

\* Python's  sub in s  on strings: sub occurs in s at some offset.
RECURSIVE FindFrom(_, _, _)
FindFrom(sub, s, j) ==
  IF j + Len(sub) > Len(s) THEN FALSE
  ELSE IF SubSeq(s, j + 1, j + Len(sub)) = sub THEN TRUE
  ELSE FindFrom(sub, s, j + 1)

\* Mutant of StrIn: the operands of  in  are swapped.
StrInSwapped(sub, s) == FindFrom(s, sub, 0)

\* Mutant of StrIn: the keyword is looked for at the start of the text only.
StrInPrefix(sub, s) == Len(sub) <= Len(s) /\ SubSeq(s, 1, Len(sub)) = sub

StrIn(sub, s) == FindFrom(sub, s, 0)

\* The loop  for domain in domains  from its i-th element on: return True at
\* the first domain found in the lower-cased text, False when the list is
\* exhausted.  text.lower() has the same value in every iteration (text is
\* never assigned), so the loop is handed that value.
RECURSIVE DomainLoop(_, _, _)
DomainLoop(lowered, domains, i) ==
  IF i > Len(domains) THEN FALSE
  ELSE IF StrIn(domains[i], lowered) THEN TRUE
  ELSE DomainLoop(lowered, domains, i + 1)

is_text_in_allowed_domain(text, domains) ==
  \E lowered \in { lower(text) } : DomainLoop(lowered, domains, 1)

(* ------------------- the two pipelines (external models) --------------- *)

\* The pipeline objects built at import time.
NerPipelineObject ==
  [task |-> "ner",
   model |-> "dbmdz/bert-large-cased-finetuned-conll03-english",
   grouped_entities |-> TRUE]

QaPipelineObject ==
  [task |-> "question-answering", model |-> "deepset/roberta-base-squad2"]

\* A numpy.float32 score as the pipelines return it, and Python's float() of it.
Float32(n) == [dtype |-> "numpy.float32", value |-> n]

float(x) == [dtype |-> "float", value |-> x.value]

\* The characters a..b of text, cut to the text.
Span(text, a, b) ==
  SubSeq(text, a, IF b > Len(text) THEN Len(text) ELSE b)

\* What a call ner_pipeline(text) may return: a list of grouped entities, each
\* a span of the text with a label and a score.
NerOutputs(text) ==
  { << >>,
    << [word |-> Span(text, 1, 1), entity_group |-> "MISC", score |-> Float32(90)],
       [word |-> Span(text, 3, 6), entity_group |-> "ORG", score |-> Float32(99)] >> }

\* What a call qa_pipeline(question=.., context=..) may return: a span of the
\* context with a score.
QaOutputs(question, context) ==
  { [answer |-> Span(context, 1, Len(question)), score |-> Float32(50)],
    [answer |-> Span(context, 3, 6), score |-> Float32(70)] }

(* ------------------------------- requests ------------------------------ *)

Requests == 1..NumRequests

\* JSON bodies of POST /process/: no text field, text null, text a string.
BodyMissing == [has_text |-> FALSE, is_str |-> FALSE, text |-> << >>]

BodyNull == [has_text |-> TRUE, is_str |-> FALSE, text |-> << >>]

BodyText(t) == [has_text |-> TRUE, is_str |-> TRUE, text |-> t]

Texts == { << >>, TextHoodie, TextStock, TextCapital, TextShoes, TextCapsize }

Bodies == { BodyMissing, BodyNull } \cup { BodyText(t) : t \in Texts }

\* The texts of the filter specification: every text over FilterAlphabet of
\* length at most MaxLen.
FilterAlphabet == { "c", "a", "p", "s", "h", "T" }

FilterTexts == UNION { [1..n -> FilterAlphabet] : n \in 0..MaxLen }

FilterBodies == { BodyMissing } \cup { BodyText(t) : t \in FilterTexts }

VARIABLES
  globals,       \* the module globals allowed_domains, ner_pipeline, qa_pipeline
  pc,            \* pc[r]: where request r is
  body,          \* body[r]: the JSON body request r arrived with
  input_text,    \* input_text[r]: the handler's local input_text
  in_domain,     \* in_domain[r]: what is_text_in_allowed_domain returned, if called
  ner_log,       \* ner_log[r]: the arguments of r's calls of ner_pipeline
  qa_log,        \* qa_log[r]: the arguments of r's calls of qa_pipeline
  ner_response,  \* ner_response[r]: the handler's local ner_response, if set
  qa_result,     \* qa_result[r]: what qa_pipeline returned to r, if it returned
  steps,         \* steps[r]: the steps request r has taken, in order
  response       \* response[r]: the HTTP response sent for r, if any

vars ==
  <<globals, pc, body, input_text, in_domain, ner_log, qa_log,
    ner_response, qa_result, steps, response>>

NoResponse == [status |-> 0, detail |-> "", content |-> << >>]

Init ==
  /\ globals = [allowed_domains |-> allowed_domains,
                ner_pipeline |-> NerPipelineObject,
                qa_pipeline |-> QaPipelineObject]
  /\ pc = [r \in Requests |-> "idle"]
  /\ body = [r \in Requests |-> BodyMissing]
  /\ input_text = [r \in Requests |-> << >>]
  /\ in_domain = [r \in Requests |-> << >>]
  /\ ner_log = [r \in Requests |-> << >>]
  /\ qa_log = [r \in Requests |-> << >>]
  /\ ner_response = [r \in Requests |-> << >>]
  /\ qa_result = [r \in Requests |-> << >>]
  /\ steps = [r \in Requests |-> << >>]
  /\ response = [r \in Requests |-> NoResponse]

\* A client posts one of the bodies; the runtime starts serving it as request r.
Receive(r, bodies) ==
  /\ pc[r] = "idle"
  /\ pc' = [pc EXCEPT ![r] = "received"]
  /\ \E b \in bodies : body' = [body EXCEPT ![r] = b]
  /\ UNCHANGED <<globals, input_text, in_domain, ner_log, qa_log,
                 ner_response, qa_result, steps, response>>

\* The body is parsed into CombinedRequest (text: str) before the handler is
\* entered: a body without a string text field is answered 422.
\* Mutant of BodyIsValid: every body is let through to the handler.
BodyIsValidAlways(b) == TRUE

BodyIsValid(b) == b.has_text /\ b.is_str

Validate(r) ==
  /\ pc[r] = "received"
  /\ steps' = [steps EXCEPT ![r] = Append(@, "validate")]
  /\ IF BodyIsValid(body[r])
       THEN /\ pc' = [pc EXCEPT ![r] = "filter"]
            /\ UNCHANGED response
       ELSE /\ pc' = [pc EXCEPT ![r] = "done"]
            /\ response' = [response EXCEPT ![r] =
                 [status |-> 422, detail |-> "validation error", content |-> << >>]]
  /\ UNCHANGED <<globals, body, input_text, in_domain, ner_log, qa_log,
                 ner_response, qa_result>>

\* input_text = request.text
RequestText(r) == body[r].text

\* Mutant of InputText: input_text is one module-level slot, not a local.
InputTextShared(r) == input_text[1]

\* The handler's reads of its local input_text.
InputText(r) == input_text[r]

\* Mutant of DomainRejected: the  not  is dropped.
DomainRejectedInverted(in_dom) == in_dom

\* if not is_text_in_allowed_domain(input_text, allowed_domains): raise 400
DomainRejected(in_dom) == ~in_dom

RejectionDetail ==
  "The input text does not match the allowed domains. Please provide a query related to clothing, fashion, or accessories."

Filter(r) ==
  /\ pc[r] = "filter"
  /\ input_text' = [input_text EXCEPT ![r] = RequestText(r)]
  /\ steps' = [steps EXCEPT ![r] = Append(@, "filter")]
  /\ \E in_dom \in { is_text_in_allowed_domain(RequestText(r), globals.allowed_domains) } :
       /\ in_domain' = [in_domain EXCEPT ![r] = <<in_dom>>]
       /\ IF DomainRejected(in_dom)
            THEN /\ pc' = [pc EXCEPT ![r] = "done"]
                 /\ response' = [response EXCEPT ![r] =
                      [status |-> 400, detail |-> RejectionDetail, content |-> << >>]]
            ELSE /\ pc' = [pc EXCEPT ![r] = "ner"]
                 /\ UNCHANGED response
  /\ UNCHANGED <<globals, body, ner_log, qa_log, ner_response, qa_result>>

\* An exception that leaves the handler is answered 500 by the HTTP layer.
ServerError == [status |-> 500, detail |-> "Internal Server Error", content |-> << >>]

\* formatted_entities: the entities in the pipeline's order, each score converted.
formatted_entities(ner_entities) ==
  [i \in 1..Len(ner_entities) |->
     [word |-> ner_entities[i].word,
      entity_group |-> ner_entities[i].entity_group,
      score |-> float(ner_entities[i].score)]]

\* ner_entities = ner_pipeline(input_text) returns; ner_response is built.
NerCall(r) ==
  /\ pc[r] = "ner"
  /\ \E ner_entities \in NerOutputs(InputText(r)) :
       ner_response' = [ner_response EXCEPT ![r] =
                          << [entities |-> formatted_entities(ner_entities)] >>]
  /\ ner_log' = [ner_log EXCEPT ![r] = Append(@, InputText(r))]
  /\ steps' = [steps EXCEPT ![r] = Append(@, "ner")]
  /\ pc' = [pc EXCEPT ![r] = "qa"]
  /\ UNCHANGED <<globals, body, input_text, in_domain, qa_log, qa_result, response>>

\* Mutant of NerRaise: the exception is swallowed and the handler goes on with
\* no entities.
NerRaiseSwallowed(r) ==
  /\ pc[r] = "ner"
  /\ ner_log' = [ner_log EXCEPT ![r] = Append(@, InputText(r))]
  /\ ner_response' = [ner_response EXCEPT ![r] = << [entities |-> << >>] >>]
  /\ steps' = [steps EXCEPT ![r] = Append(@, "ner_raised")]
  /\ pc' = [pc EXCEPT ![r] = "qa"]
  /\ UNCHANGED <<globals, body, input_text, in_domain, qa_log, qa_result, response>>

\* ner_pipeline(input_text) raises: nothing in the handler catches it.
NerRaise(r) ==
  /\ pc[r] = "ner"
  /\ ner_log' = [ner_log EXCEPT ![r] = Append(@, InputText(r))]
  /\ steps' = [steps EXCEPT ![r] = Append(@, "ner_raised")]
  /\ pc' = [pc EXCEPT ![r] = "done"]
  /\ response' = [response EXCEPT ![r] = ServerError]
  /\ UNCHANGED <<globals, body, input_text, in_domain, qa_log, ner_response, qa_result>>

\* The keyword arguments of qa_pipeline(question=input_text, context=input_text).
QaArguments(r) == [question |-> InputText(r), context |-> InputText(r)]

\* qa_result = qa_pipeline(...) returns.
QaCall(r) ==
  /\ pc[r] = "qa"
  /\ LET args == QaArguments(r)
     IN  /\ \E out \in QaOutputs(args.question, args.context) :
              qa_result' = [qa_result EXCEPT ![r] = <<out>>]
         /\ qa_log' = [qa_log EXCEPT ![r] = Append(@, args)]
  /\ steps' = [steps EXCEPT ![r] = Append(@, "qa")]
  /\ pc' = [pc EXCEPT ![r] = "assemble"]
  /\ UNCHANGED <<globals, body, input_text, in_domain, ner_log, ner_response, response>>

\* Mutant of QaRaise: the exception is caught and the NER part is returned alone.
QaRaisePartial(r) ==
  /\ pc[r] = "qa"
  /\ qa_log' = [qa_log EXCEPT ![r] = Append(@, QaArguments(r))]
  /\ steps' = [steps EXCEPT ![r] = Append(@, "qa_raised")]
  /\ pc' = [pc EXCEPT ![r] = "done"]
  /\ response' = [response EXCEPT ![r] =
       [status |-> 200, detail |-> "", content |-> << [ner |-> ner_response[r][1]] >>]]
  /\ UNCHANGED <<globals, body, input_text, in_domain, ner_log, ner_response, qa_result>>

\* qa_pipeline(...) raises: nothing in the handler catches it.
QaRaise(r) ==
  /\ pc[r] = "qa"
  /\ qa_log' = [qa_log EXCEPT ![r] = Append(@, QaArguments(r))]
  /\ steps' = [steps EXCEPT ![r] = Append(@, "qa_raised")]
  /\ pc' = [pc EXCEPT ![r] = "done"]
  /\ response' = [response EXCEPT ![r] = ServerError]
  /\ UNCHANGED <<globals, body, input_text, in_domain, ner_log, ner_response, qa_result>>

\* Mutant of qa_response: the question is echoed lower-cased.
qa_response_lowered(text, result) ==
  [question |-> lower(text), answer |-> result.answer, score |-> float(result.score)]

\* qa_result["score"] = float(qa_result["score"]); qa_response = {...}
qa_response(text, result) ==
  LET scored == [result EXCEPT !.score = float(@)]
  IN  [question |-> text, answer |-> scored.answer, score |-> scored.score]

\* return {"ner": ner_response, "qa": qa_response}
Return(r) ==
  /\ pc[r] = "assemble"
  /\ response' = [response EXCEPT ![r] =
       [status |-> 200, detail |-> "",
        content |-> << [ner |-> ner_response[r][1],
                        qa |-> qa_response(InputText(r), qa_result[r][1])] >>]]
  /\ steps' = [steps EXCEPT ![r] = Append(@, "assemble")]
  /\ pc' = [pc EXCEPT ![r] = "done"]
  /\ UNCHANGED <<globals, body, input_text, in_domain, ner_log, qa_log,
                 ner_response, qa_result>>

Next ==
  \E r \in Requests :
    \/ Receive(r, Bodies)
    \/ Validate(r)
    \/ Filter(r)
    \/ NerCall(r)
    \/ NerRaise(r)
    \/ QaCall(r)
    \/ QaRaise(r)
    \/ Return(r)

Spec == Init /\ [][Next]_vars

\* One request with a text drawn from FilterTexts, up to the filter's decision.
NextFilter ==
  \/ Receive(1, FilterBodies)
  \/ Validate(1)
  \/ Filter(1)

SpecFilter == Init /\ [][NextFilter]_vars

(* ------------------------------ properties ----------------------------- *)

\* Keyword k occurs in text at offset j, compared character by character
\* ignoring the case of the text.
OccursAt(k, text, j) ==
  /\ j + Len(k) <= Len(text)
  /\ \A m \in 1..Len(k) : lower_char(text[j + m]) = k[m]

Occurs(k, text) == \E j \in 0..Len(text) : OccursAt(k, text, j)

\* Some configured keyword occurs in the text, ignoring the case of the text.
KeywordOccurs(text) ==
  \E i \in 1..Len(allowed_domains) : Occurs(allowed_domains[i], text)

\* KeywordOccurs on the texts of Spec.
HasKeyword == [t \in Texts |-> KeywordOccurs(t)]

Has(seq, x) == \E i \in 1..Len(seq) : seq[i] = x

Malformed(b) == ~b.has_text \/ ~b.is_str

Arrived(r) == pc[r] # "idle"

\* C1: whenever is_text_in_allowed_domain has returned for a text, it returned
\* true exactly if some configured keyword occurs as a substring of the
\* lower-cased text; for the empty text it returned false.
C1_FilterIffKeywordOccurs ==
  \A r \in Requests :
    in_domain[r] # << >> =>
      /\ in_domain[r][1] = KeywordOccurs(input_text[r])
      /\ (input_text[r] = << >> => in_domain[r][1] = FALSE)

\* A text accepted for a keyword that occurs past its start and only after
\* lower-casing.
C1_Witness ==
  \E r \in Requests :
    /\ in_domain[r] = <<TRUE>>
    /\ input_text[r] # lower(input_text[r])
    /\ ~ \E i \in 1..Len(allowed_domains) : OccursAt(allowed_domains[i], input_text[r], 0)

\* C2: a 200 response with the combined content has been sent for a request
\* only if its text contains a configured keyword, ignoring case.
C2_SuccessOnlyInDomain ==
  \A r \in Requests :
    (response[r].status = 200 \/ response[r].content # << >>) =>
      /\ ~Malformed(body[r])
      /\ HasKeyword[body[r].text]

C2_Witness ==
  \E r \in Requests : response[r].status = 200 /\ response[r].content # << >>

\* C3: once the filter has returned false for a request, the request is done
\* with a 400 response and neither pipeline has been called for it; the text
\* "What is the capital of France?" is rejected so.
C3_RejectedIs400NoModel ==
  \A r \in Requests :
    /\ in_domain[r] = <<FALSE>> =>
         /\ pc[r] = "done"
         /\ response[r].status = 400
         /\ response[r].content = << >>
         /\ ner_log[r] = << >>
         /\ qa_log[r] = << >>
    /\ (in_domain[r] # << >> /\ input_text[r] = TextCapital) =>
         in_domain[r] = <<FALSE>>

C3_Witness ==
  \E r \in Requests :
    /\ body[r] = BodyText(TextCapital)
    /\ in_domain[r] = <<FALSE>>
    /\ response[r].status = 400

\* C4: success is all or nothing, with no retries.  If the NER call raised,
\* the QA pipeline was not called and the response is the server error; if the
\* QA call raised, the response is the server error with no content; content
\* is sent only with status 200 after both calls returned; each pipeline is
\* called at most once per request.
C4_AllOrNothing ==
  \A r \in Requests :
    /\ Has(steps[r], "ner_raised") =>
         qa_log[r] = << >> /\ response[r] = ServerError
    /\ Has(steps[r], "qa_raised") => response[r] = ServerError
    /\ response[r].content # << >> =>
         /\ response[r].status = 200
         /\ Has(steps[r], "ner") /\ Has(steps[r], "qa")
         /\ DOMAIN response[r].content[1] = {"ner", "qa"}
    /\ response[r].status = 200 => response[r].content # << >>
    /\ Len(ner_log[r]) <= 1
    /\ Len(qa_log[r]) <= 1

\* The NER call returned and the QA call raised.
C4_Witness ==
  \E r \in Requests :
    /\ Has(steps[r], "ner") /\ Has(steps[r], "qa_raised")
    /\ response[r] = ServerError

\* The steps of a request in the handler's order.
StepOrder == <<"validate", "filter", "ner", "qa", "assemble">>

\* A call that raised is a step of the pipeline it called.
StepKind(s) ==
  IF s = "ner_raised" THEN "ner" ELSE IF s = "qa_raised" THEN "qa" ELSE s

\* C5: the steps of each request are an initial part of validate, filter,
\* NER, QA, assembly, none taken twice; the NER pipeline is called only after
\* the filter returned true, the QA pipeline only after the NER call
\* returned, and the response is assembled only after the QA call returned.
C5_FixedOrder ==
  \A r \in Requests :
    /\ Len(steps[r]) <= Len(StepOrder)
    /\ \A i \in 1..Len(steps[r]) : StepKind(steps[r][i]) = StepOrder[i]
    /\ ner_log[r] # << >> => in_domain[r] = <<TRUE>>
    /\ qa_log[r] # << >> => Has(steps[r], "ner")
    /\ Has(steps[r], "assemble") => Has(steps[r], "qa")

C5_Witness ==
  \E r \in Requests : steps[r] = StepOrder /\ response[r].status = 200

\* C6: every call of the QA pipeline has question and context equal to the
\* request's text, and the qa.question of a 200 response is that text as
\* posted.
C6_QuestionIsInputText ==
  \A r \in Requests :
    /\ \A i \in 1..Len(qa_log[r]) :
         /\ qa_log[r][i].question = body[r].text
         /\ qa_log[r][i].context = body[r].text
    /\ response[r].status = 200 =>
         response[r].content[1].qa.question = body[r].text

\* A 200 response for a text that lower-casing would change.
C6_Witness ==
  \E r \in Requests :
    /\ response[r].status = 200
    /\ body[r].text # lower(body[r].text)
    /\ qa_log[r] = << [question |-> body[r].text, context |-> body[r].text] >>

\* C7: a request whose body has no text field, or a text that is not a
\* string, never reaches the filter or a pipeline, and once validated it is
\* done with a 4xx response.
C7_MalformedIs4xxBeforeFilter ==
  \A r \in Requests :
    (Arrived(r) /\ Malformed(body[r])) =>
      /\ in_domain[r] = << >>
      /\ ~Has(steps[r], "filter")
      /\ ner_log[r] = << >>
      /\ qa_log[r] = << >>
      /\ pc[r] \in {"received", "done"}
      /\ pc[r] = "done" =>
           response[r].status \in 400..499 /\ response[r].content = << >>

C7_Witness ==
  \E r \in Requests :
    /\ Arrived(r) /\ ~body[r].has_text
    /\ pc[r] = "done"
    /\ response[r].status = 422

\* C8: the filter returns true for "I love my new Nike hoodie" and false for
\* "The stock market fell today".
C8_ExampleTexts ==
  \A r \in Requests :
    in_domain[r] # << >> =>
      /\ input_text[r] = TextHoodie => in_domain[r] = <<TRUE>>
      /\ input_text[r] = TextStock => in_domain[r] = <<FALSE>>

KeywordCap == <<"c", "a", "p">>

KeywordCaps == <<"c", "a", "p", "s">>

\* The filter has decided on the text containing "capsize".
CapsizeFiltered(r) == in_domain[r] # << >> /\ input_text[r] = TextCapsize

\* The configured keywords that occur in the text containing "capsize".
CapsizeKeywords ==
  { allowed_domains[i] : i \in { j \in 1..Len(allowed_domains) :
                                   Occurs(allowed_domains[j], TextCapsize) } }

\* C9 as stated: the text containing "capsize" is accepted as a match for the
\* configured keyword "cap".
C9_MatchesCap ==
  \A r \in Requests :
    CapsizeFiltered(r) =>
      /\ in_domain[r] = <<TRUE>>
      /\ globals.allowed_domains = allowed_domains
      /\ KeywordCap \in CapsizeKeywords

\* C9 as amended: the text containing "capsize" is accepted, and the
\* configured keyword matching inside the word "capsize" is "caps", the only
\* configured keyword that occurs in the text.
C9_MatchesCaps ==
  \A r \in Requests :
    CapsizeFiltered(r) =>
      /\ in_domain[r] = <<TRUE>>
      /\ globals.allowed_domains = allowed_domains
      /\ CapsizeKeywords = { KeywordCaps }

C9_Witness ==
  \E r \in Requests : CapsizeFiltered(r) /\ pc[r] = "ner"

\* The responses a request with body b can get when it is served alone.
SoloOutcomes(b) ==
  IF Malformed(b)
    THEN { [status |-> 422, detail |-> "validation error", content |-> << >>] }
  ELSE IF ~HasKeyword[b.text]
    THEN { [status |-> 400, detail |-> RejectionDetail, content |-> << >>] }
  ELSE { ServerError } \cup
       { [status |-> 200, detail |-> "",
          content |-> << [ner |-> [entities |-> formatted_entities(n)],
                          qa |-> [question |-> b.text,
                                  answer |-> q.answer,
                                  score |-> float(q.score)]] >>] :
           n \in NerOutputs(b.text), q \in QaOutputs(b.text, b.text) }

\* C10: in every interleaving the module globals stay as loaded, every
\* pipeline call of a request has that request's text as argument, and the
\* response of a request is one it can get when served alone.
C10_RequestsIsolated ==
  /\ globals = [allowed_domains |-> allowed_domains,
                ner_pipeline |-> NerPipelineObject,
                qa_pipeline |-> QaPipelineObject]
  /\ \A r \in Requests :
       /\ \A i \in 1..Len(ner_log[r]) : ner_log[r][i] = body[r].text
       /\ \A i \in 1..Len(qa_log[r]) :
            qa_log[r][i] = [question |-> body[r].text, context |-> body[r].text]
       /\ response[r] # NoResponse => response[r] \in SoloOutcomes(body[r])

\* Two requests with different texts, both answered 200.
C10_Witness ==
  \E r1 \in Requests, r2 \in Requests :
    /\ r1 < r2
    /\ body[r1].text # body[r2].text
    /\ response[r1].status = 200
    /\ response[r2].status = 200

====
